---- MODULE Spec2Model ----
(***************************************************************************)
(* The noFloatingPromises lint rule of biome_js_analyze                    *)
(* (crates/biome_js_analyze/src/lint/nursery/no_floating_promises.rs).     *)
(*                                                                         *)
(* One evaluation of the rule is modelled: the analyzer offers a statement *)
(* to the rule's query, run() decides whether to signal, diagnostic() and  *)
(* action() build the report and the optional fix, and the fix, once       *)
(* applied, puts the rewritten statement back in front of the rule.        *)
(*                                                                         *)
(* Syntax nodes are records tagged with the name of their node type; an    *)
(* Option is either the value or None.  A token keeps its trimmed text and *)
(* its leading and trailing trivia apart, as biome_rowan does.             *)
(***************************************************************************)
EXTENDS Naturals, Sequences, FiniteSets, TLC

VARIABLES
    stmt,        \* the statement node offered to the rule
    ancestors,   \* the nodes enclosing the statement, innermost first
    model,       \* the semantic model: identifier name -> Option<Binding>
    pc,          \* "query" | "run" | "diagnostic" | "action" | "skipped"
    signal,      \* the Signals value of the last run(): None or Some(())
    diagnostic,  \* the RuleDiagnostic of the last diagnostic(), or None
    fix,         \* the JsRuleAction of the last action(), or None
    fixes,       \* how many fixes have been applied to the statement
    original     \* the statement as first offered, before any fix

vars == <<stmt, ancestors, model, pc, signal, diagnostic, fix, fixes, original>>

None == [kind |-> "None"]
Some == [kind |-> "Some"]

(***************************************************************************)
(* Bounds of the explored inputs.                                          *)
(***************************************************************************)
MaxLinks == 3
MaxArgs == 2
MaxAncestors == 2
MaxFixes == 2

(***************************************************************************)
(* Syntax nodes.                                                           *)
(***************************************************************************)
Token(text, leading, trailing) ==
    [text |-> text, leading |-> leading, trailing |-> trailing]

JsName(text, trailing) ==
    [kind |-> "JsName", value_token |-> Token(text, "", trailing)]

JsPrivateName(text) ==
    [kind |-> "JsPrivateName", value_token |-> Token(text, "", "")]

Arguments(n) == [i \in 1..n |-> "arg"]

\* An identifier expression; name is the token of its reference.
JsIdentifierExpression(name) ==
    [kind |-> "JsIdentifierExpression", name |-> Token(name, "", "")]

JsCallExpression(callee, n) ==
    [kind |-> "JsCallExpression", callee |-> callee, arguments |-> Arguments(n)]

JsStaticMemberExpression(object, member) ==
    [kind |-> "JsStaticMemberExpression", object |-> object, member |-> member]

JsComputedMemberExpression(object) ==
    [kind |-> "JsComputedMemberExpression", object |-> object]

JsParenthesizedExpression(expression) ==
    [kind |-> "JsParenthesizedExpression", l_paren_token |-> Token("(", "", ""),
     expression |-> expression]

JsUnaryExpression(operator, argument) ==
    [kind |-> "JsUnaryExpression", operator_token |-> Token(operator, "", " "),
     argument |-> argument]

JsAwaitExpression(await_token, argument) ==
    [kind |-> "JsAwaitExpression", await_token |-> await_token,
     argument |-> argument]

\* offset is where the text of the statement starts in the file.
JsExpressionStatement(expression) ==
    [kind |-> "JsExpressionStatement", expression |-> expression,
     semicolon_token |-> Token(";", "", ""), offset |-> 0]

JsReturnStatement(argument) ==
    [kind |-> "JsReturnStatement", argument |-> argument]

(***************************************************************************)
(* Conversions of biome_rowan used by the rule.                            *)
(***************************************************************************)
\* ToString of a node goes through Display, which writes the full text of
\* the node's tokens: the trivia around the name is part of the string.
to_string(name) ==
    name.value_token.leading \o name.value_token.text \o name.value_token.trailing

\* JsReferenceIdentifier::has_name compares the trimmed token text.
has_name(identifier, name) == identifier.text = name

token_text(token) == token.leading \o token.text \o token.trailing

RECURSIVE arguments_text(_)
arguments_text(args) ==
    IF args = <<>> THEN ""
    ELSE IF Len(args) = 1 THEN Head(args)
    ELSE Head(args) \o ", " \o arguments_text(Tail(args))

RECURSIVE node_text(_)
\* The source text of an expression, trivia included.
node_text(e) ==
    IF e.kind = "JsIdentifierExpression" THEN token_text(e.name)
    ELSE IF e.kind = "JsCallExpression"
         THEN node_text(e.callee) \o "(" \o arguments_text(e.arguments) \o ")"
    ELSE IF e.kind = "JsStaticMemberExpression"
         THEN node_text(e.object) \o "." \o token_text(e.member.value_token)
    ELSE IF e.kind = "JsComputedMemberExpression"
         THEN node_text(e.object) \o "[0]"
    ELSE IF e.kind = "JsParenthesizedExpression"
         THEN token_text(e.l_paren_token) \o node_text(e.expression) \o ")"
    ELSE IF e.kind = "JsUnaryExpression"
         THEN token_text(e.operator_token) \o node_text(e.argument)
    ELSE token_text(e.await_token) \o node_text(e.argument)

RECURSIVE first_token(_)
\* SyntaxNode::first_token of an expression.
first_token(e) ==
    IF e.kind = "JsIdentifierExpression" THEN e.name
    ELSE IF e.kind = "JsCallExpression" THEN first_token(e.callee)
    ELSE IF e.kind \in {"JsStaticMemberExpression", "JsComputedMemberExpression"}
         THEN first_token(e.object)
    ELSE IF e.kind = "JsParenthesizedExpression" THEN e.l_paren_token
    ELSE IF e.kind = "JsUnaryExpression" THEN e.operator_token
    ELSE e.await_token

RECURSIVE with_leading_trivia_pieces(_, _)
\* The node with the leading trivia of its first token replaced.
with_leading_trivia_pieces(e, trivia) ==
    IF e.kind = "JsIdentifierExpression"
    THEN [e EXCEPT !.name.leading = trivia]
    ELSE IF e.kind = "JsCallExpression"
         THEN [e EXCEPT !.callee = with_leading_trivia_pieces(e.callee, trivia)]
    ELSE IF e.kind \in {"JsStaticMemberExpression", "JsComputedMemberExpression"}
         THEN [e EXCEPT !.object = with_leading_trivia_pieces(e.object, trivia)]
    ELSE IF e.kind = "JsParenthesizedExpression"
         THEN [e EXCEPT !.l_paren_token.leading = trivia]
    ELSE IF e.kind = "JsUnaryExpression"
         THEN [e EXCEPT !.operator_token.leading = trivia]
    ELSE [e EXCEPT !.await_token.leading = trivia]

\* AstNode::trim_leading_trivia: None for a node without a first token.
trim_leading_trivia(e) ==
    IF first_token(e) = None THEN None
    ELSE with_leading_trivia_pieces(e, "")

\* AstNode::range of a statement: the range of its text without the
\* leading trivia of its first token and the trailing trivia of its last;
\* the trivia between the two, such as a line break before the semicolon,
\* is inside the range.
range(node) ==
    LET start == node.offset + Len(first_token(node.expression).leading)
        trimmed == node_text(with_leading_trivia_pieces(node.expression, ""))
                     \o node.semicolon_token.leading
                     \o node.semicolon_token.text
    IN [start |-> start, end |-> start + Len(trimmed)]

(***************************************************************************)
(* Type nodes and declarations.                                            *)
(***************************************************************************)
JsReferenceIdentifier(text) == [kind |-> "JsReferenceIdentifier", text |-> text]

TsQualifiedName(left, right) ==
    [kind |-> "TsQualifiedName", left |-> left, right |-> right]

TsReferenceType(name) == [kind |-> "TsReferenceType", name |-> name]

TsFunctionType(return_type) ==
    [kind |-> "TsFunctionType", return_type |-> return_type]

TsReturnTypeAnnotation(ty) == [kind |-> "TsReturnTypeAnnotation", ty |-> ty]

TsTypeAnnotation(ty) == [kind |-> "TsTypeAnnotation", ty |-> ty]

TsDefiniteVariableAnnotation(ty) ==
    [kind |-> "TsDefiniteVariableAnnotation", ty |-> ty]

\* The variants of AnyTsReturnType that are not AnyTsType.
NonTypeReturnKinds == {"TsAssertsReturnType", "TsPredicateReturnType"}

JsFunctionDeclaration(async, return_type_annotation) ==
    [kind |-> "JsFunctionDeclaration", async_token |-> async,
     return_type_annotation |-> return_type_annotation]

JsArrowFunctionExpression(async, return_type_annotation) ==
    [kind |-> "JsArrowFunctionExpression", async_token |-> async,
     return_type_annotation |-> return_type_annotation]

JsFunctionExpression(async, return_type_annotation) ==
    [kind |-> "JsFunctionExpression", async_token |-> async,
     return_type_annotation |-> return_type_annotation]

JsVariableDeclarator(initializer, variable_annotation) ==
    [kind |-> "JsVariableDeclarator", initializer |-> initializer,
     variable_annotation |-> variable_annotation]

\* Other members of AnyJsBindingDeclaration: they may be asynchronous or
\* carry a Promise return type, the rule does not look at them.
OtherDeclaration(kind, async, return_type_annotation) ==
    [kind |-> kind, async_token |-> async,
     return_type_annotation |-> return_type_annotation]

Binding(declaration) == [kind |-> "Binding", declaration |-> declaration]

(***************************************************************************)
(* Promise-value inference.                                                *)
(***************************************************************************)
is_return_type_a_promise_any_name(return_type) ==
    IF return_type = None THEN FALSE
    ELSE LET any_ts_return_type == return_type.ty IN
         IF any_ts_return_type.kind \in NonTypeReturnKinds THEN FALSE
         ELSE IF any_ts_return_type.kind # "TsReferenceType" THEN FALSE
         ELSE LET name == any_ts_return_type.name IN
              IF name.kind = "JsReferenceIdentifier"
              THEN has_name(name, "Promise")
              ELSE name.right = "Promise"

is_return_type_a_promise(return_type) ==
    IF return_type = None THEN FALSE
    ELSE LET any_ts_return_type == return_type.ty IN
         IF any_ts_return_type.kind \in NonTypeReturnKinds THEN FALSE
         ELSE IF any_ts_return_type.kind # "TsReferenceType" THEN FALSE
         ELSE LET name == any_ts_return_type.name IN
              IF name.kind # "JsReferenceIdentifier" THEN FALSE
              ELSE has_name(name, "Promise")

is_function_a_promise(func_decl) ==
    \/ func_decl.async_token
    \/ is_return_type_a_promise(func_decl.return_type_annotation)

is_variable_initializer_a_promise(js_variable_declarator) ==
    LET expr == js_variable_declarator.initializer IN
    IF expr = None THEN FALSE
    ELSE IF expr.kind = "JsArrowFunctionExpression"
         THEN \/ expr.async_token
              \/ is_return_type_a_promise(expr.return_type_annotation)
    ELSE IF expr.kind = "JsFunctionExpression"
         THEN \/ expr.async_token
              \/ is_return_type_a_promise(expr.return_type_annotation)
    ELSE FALSE

is_variable_annotation_a_promise(js_variable_declarator) ==
    LET anno == js_variable_declarator.variable_annotation IN
    IF anno = None THEN FALSE
    ELSE IF anno.kind # "TsTypeAnnotation" THEN FALSE
    ELSE LET any_ts_type == anno.ty IN
         IF any_ts_type.kind # "TsFunctionType" THEN FALSE
         ELSE LET return_type == any_ts_type.return_type IN
              IF return_type.kind # "TsReferenceType" THEN FALSE
              ELSE IF return_type.name.kind # "JsReferenceIdentifier" THEN FALSE
              ELSE has_name(return_type.name, "Promise")

\* SemanticModel::binding: the binding of a reference, if it has one.
binding(m, reference) ==
    IF reference \in DOMAIN m THEN m[reference] ELSE None

RECURSIVE is_callee_a_promise(_, _)

is_member_expression_callee_a_promise_one_level(static_member_expr, m) ==
    LET expr == static_member_expr.object IN
    IF expr.kind # "JsCallExpression" THEN FALSE
    ELSE IF expr.callee.kind # "JsIdentifierExpression" THEN FALSE
    ELSE is_callee_a_promise(expr.callee, m)

is_member_expression_callee_a_promise(static_member_expr, m) ==
    LET expr == static_member_expr.object IN
    IF expr.kind # "JsCallExpression" THEN FALSE
    ELSE is_callee_a_promise(expr.callee, m)

is_callee_a_promise_any_declaration(callee, m) ==
    IF callee.kind = "JsIdentifierExpression"
    THEN LET b == binding(m, callee.name.text) IN
         IF b = None THEN FALSE
         ELSE IF b.declaration = None THEN FALSE
         ELSE LET any_js_binding_decl == b.declaration IN
              IF any_js_binding_decl.kind = "JsVariableDeclarator"
              THEN \/ is_variable_initializer_a_promise(any_js_binding_decl)
                   \/ is_variable_annotation_a_promise(any_js_binding_decl)
              ELSE is_function_a_promise(any_js_binding_decl)
    ELSE IF callee.kind = "JsStaticMemberExpression"
    THEN is_member_expression_callee_a_promise(callee, m)
    ELSE FALSE

is_callee_a_promise(callee, m) ==
    IF callee.kind = "JsIdentifierExpression"
    THEN LET b == binding(m, callee.name.text) IN
         IF b = None THEN FALSE
         ELSE IF b.declaration = None THEN FALSE
         ELSE LET any_js_binding_decl == b.declaration IN
              IF any_js_binding_decl.kind = "JsFunctionDeclaration"
              THEN is_function_a_promise(any_js_binding_decl)
              ELSE IF any_js_binding_decl.kind = "JsVariableDeclarator"
              THEN \/ is_variable_initializer_a_promise(any_js_binding_decl)
                   \/ is_variable_annotation_a_promise(any_js_binding_decl)
              ELSE FALSE
    ELSE IF callee.kind = "JsStaticMemberExpression"
    THEN is_member_expression_callee_a_promise(callee, m)
    ELSE FALSE

(***************************************************************************)
(* Handled-chain resolution.                                               *)
(***************************************************************************)
RECURSIVE is_handled_promise(_)

is_handled_promise(js_call_expression) ==
    LET expr == js_call_expression.callee IN
    IF expr.kind # "JsStaticMemberExpression" THEN FALSE
    ELSE IF expr.member.kind # "JsName" THEN FALSE
    ELSE LET name == to_string(expr.member) IN
         IF name = "finally" /\ expr.object.kind = "JsCallExpression"
         THEN is_handled_promise(expr.object)
         ELSE IF name = "catch" /\ Len(js_call_expression.arguments) > 0
         THEN TRUE
         ELSE IF name = "then" /\ Len(js_call_expression.arguments) >= 2
         THEN TRUE
         ELSE FALSE

(***************************************************************************)
(* Enclosing-function lookup.                                              *)
(***************************************************************************)
AsyncFunctionKinds ==
    {"JS_ARROW_FUNCTION_EXPRESSION", "JS_FUNCTION_DECLARATION",
     "JS_METHOD_CLASS_MEMBER", "JS_METHOD_OBJECT_MEMBER"}

\* The closure handed to find_map: the async token of a function-like
\* ancestor of one of the four kinds, if it has one.
async_token_of(ancestor) ==
    IF ancestor.kind \in AsyncFunctionKinds /\ ancestor.async_token
    THEN Some ELSE None

RECURSIVE find_map_async(_)
find_map_async(nodes) ==
    IF nodes = <<>> THEN None
    ELSE IF async_token_of(Head(nodes)) # None THEN async_token_of(Head(nodes))
    ELSE find_map_async(Tail(nodes))

\* JsExpressionStatement::syntax: the statement as an untyped node.
syntax(node) == [kind |-> "JS_EXPRESSION_STATEMENT", async_token |-> FALSE]

\* SyntaxNode::ancestors starts at the node itself and walks outward.
is_in_async_function(node, nodes) ==
    find_map_async(<<syntax(node)>> \o nodes) # None

(***************************************************************************)
(* The rule: run, diagnostic, action.                                      *)
(***************************************************************************)
run_unwrapping(node, m) ==
    LET expression ==
            IF node.expression.kind \in {"JsAwaitExpression", "JsUnaryExpression"}
            THEN node.expression.argument ELSE node.expression IN
    IF expression.kind = "JsCallExpression"
    THEN IF ~is_callee_a_promise(expression.callee, m) THEN None
         ELSE IF is_handled_promise(expression) THEN None
         ELSE Some
    ELSE None

run_ignoring_handlers(node, m) ==
    LET expression == node.expression IN
    IF expression.kind = "JsCallExpression"
    THEN IF ~is_callee_a_promise(expression.callee, m) THEN None ELSE Some
    ELSE None

run(node, m) ==
    LET expression == node.expression IN
    IF expression.kind = "JsCallExpression"
    THEN IF ~is_callee_a_promise(expression.callee, m) THEN None
         ELSE IF is_handled_promise(expression) THEN None
         ELSE Some
    ELSE None

\* The note quotes .catch, .then and void in backquotes, written here as
\* apostrophes.
rule_diagnostic(node) ==
    [kind |-> "RuleDiagnostic",
     category |-> "lint/nursery/noFloatingPromises",
     range |-> range(node),
     message |-> "A \"floating\" Promise was found, meaning it is not properly handled and could lead to ignored errors or unexpected behavior.",
     notes |-> <<"This happens when a Promise is not awaited, lacks a '.catch' or '.then' rejection handler, or is not explicitly ignored using the 'void' operator.">>]

AwaitToken == Token("await", "", " ")

\* BatchMutation::replace_node: the new node takes over the leading trivia
\* of the first token of the node it replaces (the last token, and so the
\* trailing trivia, is the same token in both).
replace_node(prev, next) ==
    [prev |-> prev,
     next |-> with_leading_trivia_pieces(next, first_token(prev).leading)]

\* RuleMetadata::action_category of the rule.
action_category ==
    [kind |-> "QuickFix", rule |-> "nursery.noFloatingPromises"]

action_without_await(node, nodes) ==
    IF ~is_in_async_function(node, nodes) THEN None
    ELSE LET expression == node.expression
             trimmed == trim_leading_trivia(expression)
         IN IF trimmed = None THEN None
            ELSE [kind |-> "JsRuleAction", category |-> action_category,
                  applicability |-> "unsafe",
                  message |-> "Add await operator.",
                  mutation |-> replace_node(expression, trimmed)]

action(node, nodes) ==
    IF ~is_in_async_function(node, nodes) THEN None
    ELSE LET expression == node.expression
             trimmed == trim_leading_trivia(expression)
         IN IF trimmed = None THEN None
            ELSE LET await_expression == JsAwaitExpression(AwaitToken, trimmed)
                 IN [kind |-> "JsRuleAction", category |-> action_category,
                     applicability |-> "unsafe",
                     message |-> "Add await operator.",
                     mutation |-> replace_node(expression, await_expression)]

\* BatchMutation::replace_node, committed on the statement.
commit(node, mutation) ==
    IF node.expression = mutation.prev
    THEN [node EXCEPT !.expression = mutation.next]
    ELSE node

(***************************************************************************)
(* The inputs explored: programs around one statement.                     *)
(***************************************************************************)
PromiseType == TsReferenceType(JsReferenceIdentifier("Promise"))

ReturnTypes ==
    {PromiseType,
     TsReferenceType(JsReferenceIdentifier("Foo")),
     TsReferenceType(TsQualifiedName("ns", "Promise")),
     [kind |-> "TsVoidType"],
     [kind |-> "TsAssertsReturnType"]}

ReturnTypeAnnotations ==
    {None} \cup {TsReturnTypeAnnotation(t) : t \in ReturnTypes}

FunctionDeclarations ==
    {JsFunctionDeclaration(a, r) : a \in BOOLEAN, r \in ReturnTypeAnnotations}

Initializers ==
    {None, JsCallExpression(JsIdentifierExpression("mk"), 0)}
    \cup {JsArrowFunctionExpression(a, r) :
             a \in BOOLEAN, r \in ReturnTypeAnnotations}
    \cup {JsFunctionExpression(a, r) :
             a \in BOOLEAN, r \in ReturnTypeAnnotations}

VariableAnnotations ==
    {None, TsDefiniteVariableAnnotation(TsFunctionType(PromiseType))}
    \cup {TsTypeAnnotation(TsFunctionType(r)) : r \in ReturnTypes}
    \cup {TsTypeAnnotation(PromiseType), TsTypeAnnotation([kind |-> "TsVoidType"])}

VariableDeclarators ==
    {JsVariableDeclarator(i, v) : i \in Initializers, v \in VariableAnnotations}

OtherDeclarations ==
    {OtherDeclaration("JsClassDeclaration", FALSE, None),
     OtherDeclaration("TsDeclareFunctionDeclaration", FALSE,
                      TsReturnTypeAnnotation(PromiseType)),
     OtherDeclaration("JsFunctionExportDefaultDeclaration", TRUE,
                      TsReturnTypeAnnotation(PromiseType)),
     OtherDeclaration("JsFormalParameter", FALSE, None)}

Declarations == FunctionDeclarations \cup VariableDeclarators \cup OtherDeclarations

Bindings == {Binding(None)} \cup {Binding(d) : d \in Declarations}

\* async function f(): Promise<string> {}   and   function f(): void {}
PromiseFn == Binding(JsFunctionDeclaration(TRUE, TsReturnTypeAnnotation(PromiseType)))
VoidFn == Binding(JsFunctionDeclaration(FALSE, TsReturnTypeAnnotation([kind |-> "TsVoidType"])))

\* The semantic model of a program that declares f; u is never declared.
Model(b) == [n \in {"f"} |-> b]

Link(object, name, trailing, n) ==
    JsCallExpression(JsStaticMemberExpression(object, JsName(name, trailing)), n)

HandlerNames == {"then", "catch", "finally"}

\* The trailing trivia of a member name: none, or a space as in e.then (a)
Trivia == {"", " "}

RECURSIVE Chains(_, _)
\* The call chains of exactly k links e.m1(..).m2(..)...mk(..) over e.
Chains(e, k) ==
    IF k = 0 THEN {e}
    ELSE {Link(o, name, trailing, n) :
            o \in Chains(e, k - 1), name \in HandlerNames,
            trailing \in Trivia, n \in 0..MaxArgs}

RECURSIVE Through(_, _)
\* e.x().x()...x() with k links of a name that is no handler.
Through(e, k) == IF k = 0 THEN e ELSE Link(Through(e, k - 1), "x", "", 0)

Root(name) == JsCallExpression(JsIdentifierExpression(name), 0)

InferExpressions ==
    UNION {
      {JsIdentifierExpression(name),
       Root(name),
       JsCallExpression(JsIdentifierExpression(name), MaxArgs),
       JsCallExpression(JsStaticMemberExpression(JsIdentifierExpression(name),
                                                 JsName("then", "")), 1),
       JsCallExpression(Root(name), 0),
       JsCallExpression(JsComputedMemberExpression(Root(name)), 1),
       JsCallExpression(JsParenthesizedExpression(JsIdentifierExpression(name)), 0),
       JsCallExpression(JsStaticMemberExpression(Root(name), JsPrivateName("then")),
                        MaxArgs),
       JsCallExpression(JsStaticMemberExpression(
                            JsParenthesizedExpression(Root(name)),
                            JsName("then", "")), 1)}
      \cup {Link(Through(Root(name), k), h, "", n) :
               k \in 0..(MaxLinks - 1), h \in HandlerNames \cup {"x"},
               n \in {1, MaxArgs}}
      : name \in {"f", "u"}}

Wrapped(e) ==
    {JsExpressionStatement(JsAwaitExpression(AwaitToken, e)),
     JsExpressionStatement(JsUnaryExpression("void", e)),
     JsExpressionStatement(JsUnaryExpression("!", e)),
     JsExpressionStatement(JsParenthesizedExpression(e)),
     JsReturnStatement(e)}

AncestorNodes ==
    {[kind |-> k, async_token |-> a] :
        k \in AsyncFunctionKinds \cup {"JS_FUNCTION_EXPRESSION"}, a \in BOOLEAN}
    \cup {[kind |-> "JS_BLOCK_STATEMENT", async_token |-> FALSE]}

AncestorLists == UNION {[1..n -> AncestorNodes] : n \in 0..MaxAncestors}

AsyncFunction == [kind |-> "JS_FUNCTION_DECLARATION", async_token |-> TRUE]

\* The leading trivia of a statement: none, or a line break and indentation.
Leading == {"", "\n  "}

\* Where a statement may start in the file.
Offsets == {0, 22}

\* The semicolon of a statement: right after the expression, on the next
\* line, or followed by a space.
Semicolons == {Token(";", "", ""), Token(";", "\n", ""), Token(";", "", " ")}

Input(s, a, m) ==
    /\ stmt = s
    /\ ancestors = a
    /\ model = m
    /\ original = s

\* Every declaration of f, under a few statements that call it.
InferInputs ==
    \E e \in InferExpressions, b \in Bindings, l \in Leading :
        Input(JsExpressionStatement(with_leading_trivia_pieces(e, l)),
              <<AsyncFunction>>, Model(b))

\* Every chain of handlers over a call of a promise-returning f.
ChainInputs ==
    \E k \in 0..MaxLinks :
        \E e \in Chains(Root("f"), k) :
            Input(JsExpressionStatement(e), <<AsyncFunction>>, Model(PromiseFn))

\* Every nesting of functions around a statement.
ScopeInputs ==
    \E e \in {Root("f"), Link(Root("f"), "then", "", 1),
               Link(Root("f"), "catch", "", 1)},
       a \in AncestorLists, l \in Leading, o \in Offsets,
       semicolon \in Semicolons :
        Input([JsExpressionStatement(with_leading_trivia_pieces(e, l))
                  EXCEPT !.offset = o, !.semicolon_token = semicolon],
              a, Model(PromiseFn))

\* Statements that wrap the call in await, void, parentheses or return.
WrapInputs ==
    \E k \in 0..1 :
        \E e \in Chains(Root("f"), k) :
            \E s \in Wrapped(e), a \in {<<>>, <<AsyncFunction>>},
               b \in {PromiseFn, VoidFn} :
                Input(s, a, Model(b))

Inputs == InferInputs \/ ChainInputs \/ ScopeInputs \/ WrapInputs

(***************************************************************************)
(* The analyzer's evaluation of the rule on one statement.                 *)
(***************************************************************************)
Init ==
    /\ Inputs
    /\ pc = "query"
    /\ signal = None
    /\ diagnostic = None
    /\ fix = None
    /\ fixes = 0

\* The query Semantic<JsExpressionStatement> matches: run() is called.
Run ==
    /\ pc = "query"
    /\ stmt.kind = "JsExpressionStatement"
    /\ signal' = run(stmt, model)
    /\ pc' = "run"
    /\ UNCHANGED <<stmt, ancestors, model, diagnostic, fix, fixes, original>>

\* The query does not match the statement: the rule is not run on it.
Skip ==
    /\ pc = "query"
    /\ stmt.kind # "JsExpressionStatement"
    /\ pc' = "skipped"
    /\ UNCHANGED <<stmt, ancestors, model, signal, diagnostic, fix, fixes, original>>

Diagnostic ==
    /\ pc = "run"
    /\ signal # None
    /\ diagnostic' = rule_diagnostic(stmt)
    /\ pc' = "diagnostic"
    /\ UNCHANGED <<stmt, ancestors, model, signal, fix, fixes, original>>

Action ==
    /\ pc = "diagnostic"
    /\ fix' = action(stmt, ancestors)
    /\ pc' = "action"
    /\ UNCHANGED <<stmt, ancestors, model, signal, diagnostic, fixes, original>>

\* The offered fix is applied and the rewritten statement is analyzed anew.
ApplyFix ==
    /\ pc = "action"
    /\ fix # None
    /\ fixes < MaxFixes
    /\ stmt' = commit(stmt, fix.mutation)
    /\ fixes' = fixes + 1
    /\ pc' = "query"
    /\ signal' = None
    /\ diagnostic' = None
    /\ fix' = None
    /\ UNCHANGED <<ancestors, model, original>>

Next == Run \/ Skip \/ Diagnostic \/ Action \/ ApplyFix

Spec == Init /\ [][Next]_vars

(***************************************************************************)
(* Vocabulary of the properties.                                           *)
(***************************************************************************)
IsCall(e) == e.kind = "JsCallExpression"

\* e is obj.name(args...): a call through a static member of that name.
IsMemberCall(e, name) ==
    /\ IsCall(e)
    /\ e.callee.kind = "JsStaticMemberExpression"
    /\ e.callee.member.kind = "JsName"
    /\ e.callee.member.value_token.text = name

\* obj is inferred as a promise: a call whose callee is promise-returning.
InferredPromise(obj) == IsCall(obj) /\ is_callee_a_promise(obj.callee, model)

NArgs(e) == Len(e.arguments)

\* A function-like node that is async or annotated to return Promise.
PromiseFunctionLike(fn) ==
    \/ fn.async_token
    \/ fn.return_type_annotation = TsReturnTypeAnnotation(PromiseType)

\* The declarations the rule takes to be promise-returning callables.
PromiseDeclaration(d) ==
    \/ d.kind = "JsFunctionDeclaration" /\ PromiseFunctionLike(d)
    \/ /\ d.kind = "JsVariableDeclarator"
       /\ \/ /\ d.initializer.kind \in
                  {"JsArrowFunctionExpression", "JsFunctionExpression"}
             /\ PromiseFunctionLike(d.initializer)
          \/ d.variable_annotation = TsTypeAnnotation(TsFunctionType(PromiseType))

Resolves(name) == name \in DOMAIN model /\ model[name].declaration # None

RECURSIVE ChainBase(_)
\* The expression a member-call chain starts from: f for f().x().y().then
ChainBase(callee) ==
    IF callee.kind = "JsStaticMemberExpression" /\ IsCall(callee.object)
    THEN ChainBase(callee.object.callee)
    ELSE callee

RECURSIVE Size(_)
\* The number of nodes of a callee expression along its chain.
Size(e) ==
    IF e.kind = "JsStaticMemberExpression" THEN 1 + Size(e.object)
    ELSE IF e.kind = "JsCallExpression" THEN 1 + Size(e.callee)
    ELSE 1

RECURSIVE NearestFunction(_)
\* The first arrow function, function declaration, class method or object
\* method met walking outward, or None at top level.
NearestFunction(nodes) ==
    IF nodes = <<>> THEN None
    ELSE IF Head(nodes).kind \in AsyncFunctionKinds THEN Head(nodes)
    ELSE NearestFunction(Tail(nodes))

Flagged == signal = Some

(***************************************************************************)
(* Properties.                                                             *)
(***************************************************************************)

\* C1: run() signals exactly when the statement's expression is directly a
\* call, its callee is a promise and the call is not handled; in particular
\* f(); and f().then(a); are signalled when f is an async function
\* declaration or a function declaration returning Promise.
C1_RunSignalsIff ==
    pc = "run" =>
      LET e == stmt.expression IN
      /\ Flagged <=> /\ IsCall(e)
                     /\ is_callee_a_promise(e.callee, model)
                     /\ ~is_handled_promise(e)
      /\ \A name \in DOMAIN model :
           /\ Resolves(name)
           /\ model[name].declaration.kind = "JsFunctionDeclaration"
           /\ PromiseFunctionLike(model[name].declaration)
           /\ \/ /\ IsCall(e)
                 /\ e.callee.kind = "JsIdentifierExpression"
                 /\ e.callee.name.text = name
              \/ /\ IsCall(e)
                 /\ e.callee.kind = "JsStaticMemberExpression"
                 /\ e.callee.member = JsName("then", "")
                 /\ NArgs(e) = 1
                 /\ IsCall(e.callee.object)
                 /\ e.callee.object.callee.kind = "JsIdentifierExpression"
                 /\ e.callee.object.callee.name.text = name
           => Flagged

C1_Witness ==
    /\ pc = "run"
    /\ Flagged
    /\ stmt.expression = Link(Root("f"), "then", "", 1)
    /\ model["f"] = Binding(JsFunctionDeclaration(FALSE,
                                TsReturnTypeAnnotation(PromiseType)))

\* C2: expr.then(args...) over an expr inferred as a promise is not flagged
\* when it has two or more arguments and is flagged when it has fewer.
C2_ThenByArgumentCount ==
    pc = "run" =>
      LET e == stmt.expression IN
      IsMemberCall(e, "then") /\ InferredPromise(e.callee.object)
        => (Flagged <=> NArgs(e) < 2)

\* C3: expr.catch(args...) is never flagged with one or more arguments;
\* with none it is not handled, and is flagged when expr is a promise.
C3_CatchByArgumentCount ==
    pc = "run" =>
      LET e == stmt.expression IN
      IsMemberCall(e, "catch") =>
        /\ NArgs(e) >= 1 => ~Flagged
        /\ NArgs(e) = 0 => ~is_handled_promise(e)
        /\ NArgs(e) = 0 /\ InferredPromise(e.callee.object) => Flagged

\* C4: obj.finally(...) is handled exactly when obj is a call that is
\* itself handled, whatever the arguments of finally.
C4_FinallyInherits ==
    pc = "run" =>
      LET e == stmt.expression IN
      IsMemberCall(e, "finally") =>
        /\ is_handled_promise(e) <=>
             (IsCall(e.callee.object) /\ is_handled_promise(e.callee.object))
        /\ InferredPromise(e.callee.object)
             => (Flagged <=> ~is_handled_promise(e.callee.object))

\* C5: a statement await expr, void expr or return expr is never flagged;
\* a signal is produced only for an expression statement that is directly
\* a call.
C5_WrappedNeverFlagged ==
    /\ Flagged => stmt.kind = "JsExpressionStatement" /\ IsCall(stmt.expression)
    /\ \/ stmt.kind = "JsReturnStatement"
       \/ /\ stmt.kind = "JsExpressionStatement"
          /\ \/ stmt.expression.kind = "JsAwaitExpression"
             \/ /\ stmt.expression.kind = "JsUnaryExpression"
                /\ stmt.expression.operator_token.text = "void"
       => ~Flagged /\ pc \in {"query", "run", "skipped"}

C5_Witness ==
    /\ pc = "run"
    /\ fixes = 0
    /\ stmt.expression.kind = "JsAwaitExpression"
    /\ InferredPromise(stmt.expression.argument)
    /\ ~is_handled_promise(stmt.expression.argument)
    /\ ~Flagged

\* C6: the fix is offered only when the nearest enclosing function-like
\* ancestor is async; otherwise the diagnostic is emitted without a fix.
C6_FixOnlyInNearestAsync ==
    pc = "action" =>
      /\ diagnostic # None
      /\ fix # None <=>
           (NearestFunction(ancestors) # None
              /\ NearestFunction(ancestors).async_token)

\* C7: the fix rewrites the statement to await followed by the original
\* call expression, the leading trivia of the call staying in front, and the
\* rule gives no signal on the rewritten statement.
C7_FixIdempotent ==
    fixes > 0 =>
      LET lead == first_token(original.expression).leading IN
      /\ fixes = 1
      /\ IsCall(original.expression)
      /\ stmt = [original EXCEPT !.expression = stmt.expression]
      /\ stmt.expression.kind = "JsAwaitExpression"
      /\ stmt.expression.await_token = Token("await", lead, " ")
      /\ IsCall(stmt.expression.argument)
      /\ node_text(original.expression) = lead \o node_text(stmt.expression.argument)
      /\ node_text(stmt.expression)
           = lead \o "await " \o node_text(stmt.expression.argument)
      /\ first_token(stmt.expression.argument).leading = ""
      /\ pc \in {"query", "run"}
      /\ ~Flagged

C7_Witness ==
    /\ fixes = 1
    /\ pc = "run"
    /\ ~Flagged
    /\ first_token(original.expression).leading = "\n  "

\* C8: when the callee has no binding, the binding has no declaration, the
\* declaration is neither a function declaration nor a variable declarator,
\* or the callee is neither an identifier nor a static member access, the
\* callee is not a promise and run() gives no signal.
C8_FailedLookupIsSilent ==
    pc = "run" /\ IsCall(stmt.expression) =>
      LET callee == stmt.expression.callee IN
      \/ /\ callee.kind = "JsIdentifierExpression"
         /\ \/ callee.name.text \notin DOMAIN model
            \/ model[callee.name.text].declaration = None
            \/ model[callee.name.text].declaration.kind
                 \notin {"JsFunctionDeclaration", "JsVariableDeclarator"}
      \/ callee.kind \notin {"JsIdentifierExpression", "JsStaticMemberExpression"}
      => ~is_callee_a_promise(callee, model) /\ ~Flagged

C8_Witness ==
    /\ pc = "run"
    /\ stmt.expression = Root("f")
    /\ model["f"] = Binding(OtherDeclaration("JsFunctionExportDefaultDeclaration",
                                TRUE, TsReturnTypeAnnotation(PromiseType)))
    /\ ~Flagged

\* C9: an identifier callee that resolves to a declaration is a promise
\* exactly for a function declaration that is async or returns the plain
\* name Promise, a variable initialised with such an arrow function or
\* function expression, or a variable annotated with a function type
\* returning the plain name Promise.
C9_PromiseDeclarations ==
    pc = "run" /\ IsCall(stmt.expression) =>
      LET e == stmt.expression IN
      /\ e.callee.kind = "JsIdentifierExpression" /\ Resolves(e.callee.name.text)
           => (is_callee_a_promise(e.callee, model)
                 <=> PromiseDeclaration(model[e.callee.name.text].declaration))
      /\ e = Link(Root("f"), "then", "", 1) =>
           /\ model["f"] = VoidFn => ~Flagged
           /\ model["f"] = Binding(JsVariableDeclarator(
                                JsArrowFunctionExpression(FALSE, None),
                                TsTypeAnnotation(TsFunctionType(PromiseType))))
                => Flagged

C9_Witness ==
    /\ pc = "run"
    /\ Flagged
    /\ stmt.expression = Link(Root("f"), "then", "", 1)
    /\ model["f"] = Binding(JsVariableDeclarator(
                         JsArrowFunctionExpression(FALSE, None),
                         TsTypeAnnotation(TsFunctionType(PromiseType))))

\* C10: a static-member callee obj.prop is a promise exactly when obj is a
\* call whose callee is one, whatever prop is and however long the chain of
\* member calls; each step of the recursion descends into a smaller subtree.
C10_MemberChain ==
    pc = "run" /\ IsCall(stmt.expression)
      /\ stmt.expression.callee.kind = "JsStaticMemberExpression" =>
      LET callee == stmt.expression.callee
          base == ChainBase(callee)
      IN /\ is_callee_a_promise(callee, model) <=>
              /\ base.kind = "JsIdentifierExpression"
              /\ Resolves(base.name.text)
              /\ PromiseDeclaration(model[base.name.text].declaration)
         /\ ~IsCall(callee.object)
              => ~is_callee_a_promise(callee, model) /\ ~Flagged
         /\ is_callee_a_promise(callee, model)
              = is_callee_a_promise([callee EXCEPT !.member = JsName("y", "")],
                                    model)
         /\ IsCall(callee.object) => Size(callee.object.callee) < Size(callee)

C10_Witness ==
    /\ pc = "run"
    /\ Flagged
    /\ stmt.expression = Link(Through(Root("f"), 2), "then", "", 1)

====
